---- MODULE Spec2Model ----
(***************************************************************************)
(* Model of src/extract.py: the point-in-time (PIT) extraction pipeline.   *)
(* fetch_logs validates the index, opens a PIT, creates the output         *)
(* directory, pages through the backend with search_after, buffers the     *)
(* (optionally projected) records, flushes them in chunks to CSV files and *)
(* closes the PIT with retries in a finally block.                         *)
(*                                                                         *)
(* Python values are encoded as follows.  A dict is a function with a      *)
(* string domain.  A value that may be None, a list or a dict is tagged by *)
(* its domain: [none |-> TRUE], [list |-> <<...>>], [dict |-> f].  An      *)
(* Optional[str] is a string, None being the string "None".                *)
(***************************************************************************)
EXTENDS Integers, Sequences, FiniteSets, TLC

VARIABLES
    backend,            \* the documents the PIT snapshot holds, in timestamp order
    batch_size,         \* fetch_logs parameter
    max_logs_per_chunk, \* fetch_logs parameter
    fields,             \* fetch_logs parameter (Optional[List[str]])
    level,              \* fetch_logs parameter (Optional[str])
    start_date,         \* fetch_logs parameter (Optional[str])
    end_date,           \* fetch_logs parameter (Optional[str])
    pc,                 \* position of the run inside fetch_logs
    outcome,            \* "running", "ok" (returned), "error" (raised), "exit1" (sys.exit(1))
    pending,            \* TRUE while an exception unwinds through the finally block
    pit_id,             \* local pit_id of fetch_logs
    search_after,       \* local search_after of fetch_logs
    total_logs,         \* local total_logs
    current_chunk,      \* local current_chunk
    chunk_counter,      \* local chunk_counter
    hits,               \* local hits (the page being processed)
    hit_i,              \* position of the for loop in hits
    attempt,            \* loop variable of close_point_in_time_with_retries
    built,              \* the calls of build_query so far: <<[args, result]>>, last one only
    searches,           \* history: every es.search call, in order
    flushes,            \* history: every save_logs_to_csv call, in order
    files,              \* the output directory: chunk index -> rows of logs_chunk_<index>.csv
    appended,           \* history: the last record appended to current_chunk with its source
    opens,              \* history: number of PITs opened
    close_calls,        \* history: number of calls of close_point_in_time_with_retries
    close_attempts,     \* history: results of es.close_point_in_time, in order
    log_events          \* history: what logging.* emitted, in order

vars == << backend, batch_size, max_logs_per_chunk, fields, level, start_date,
           end_date, pc, outcome, pending, pit_id, search_after, total_logs,
           current_chunk, chunk_counter, hits, hit_i, attempt, built, searches,
           flushes, files, appended, opens, close_calls, close_attempts,
           log_events >>

params == << backend, batch_size, max_logs_per_chunk, fields, level, start_date,
             end_date >>

(***************************************************************************)
(* Bounds of the model.                                                    *)
(***************************************************************************)
MaxRecords == 3
MaxTs == 2
MaxBatch == 2
MaxChunk == 2

(***************************************************************************)
(* Python values.                                                          *)
(***************************************************************************)
None == "None"
PyNone == [none |-> TRUE]
PyList(s) == [list |-> s]
PyDict(d) == [dict |-> d]
EmptyDict == [x \in {} |-> x]

IsNone(v) == "none" \in DOMAIN v
IsList(v) == "list" \in DOMAIN v
IsDict(v) == "dict" \in DOMAIN v

\* bool(v) of an Optional[List]: None and the empty list are falsy
Truthy(v) == IsList(v) /\ v.list # <<>>
\* bool(s) of an Optional[str]: None and the empty string are falsy
TruthyStr(s) == s # None /\ s # ""

Range(s) == { s[i] : i \in DOMAIN s }

RECURSIVE SeqSum(_)
SeqSum(s) == IF s = <<>> THEN 0 ELSE Head(s) + SeqSum(Tail(s))

Min(a, b) == IF a <= b THEN a ELSE b

\* d.get(k): None when the key is missing
Get(d, k) == IF k \in DOMAIN d THEN d[k] ELSE None

\* a or b, on Optional[str]
Or(a, b) == IF TruthyStr(a) THEN a ELSE b

LogEvent(lvl, msg, n) == [lvl |-> lvl, msg |-> msg, n |-> n]

(***************************************************************************)
(* Program constants.                                                      *)
(***************************************************************************)
\* close_point_in_time_with_retries(..., retries: int = 3)
DefaultRetries == 3

(***************************************************************************)
(* build_query: the query document for one page.                           *)
(***************************************************************************)
\* the filters list: the level match clause, then the timestamp range clause
Filters(p_level, p_start_date, p_end_date) ==
    LET match == IF TruthyStr(p_level)
                 THEN << [match |-> [level |-> p_level]] >>
                 ELSE << >>
        gte == IF TruthyStr(p_start_date) THEN ("gte" :> p_start_date) ELSE EmptyDict
        lte == IF TruthyStr(p_end_date) THEN ("lte" :> p_end_date) ELSE EmptyDict
        date_range == gte @@ lte
        range == IF TruthyStr(p_start_date) \/ TruthyStr(p_end_date)
                 THEN << [range |-> [timestamp |-> date_range]] >>
                 ELSE << >>
    IN  match \o range

\* faulty variant of Must: the filters list is used even when it is empty
MustAlwaysList(filters) == PyList(filters)

\* "must": filters if filters else {"match_all": {}}
Must(filters) ==
    IF filters # << >> THEN PyList(filters) ELSE PyDict([match_all |-> EmptyDict])

\* faulty variant of WithSearchAfter: the cursor is never put into the query
WithoutSearchAfter(query_body, p_search_after) == query_body

\* if search_after: query_body["search_after"] = search_after
WithSearchAfter(query_body, p_search_after) ==
    IF Truthy(p_search_after)
    THEN query_body @@ ("search_after" :> p_search_after.list)
    ELSE query_body

build_query(p_pit_id, p_search_after, p_level, p_start_date, p_end_date, p_batch_size) ==
    LET query_body ==
            [ size  |-> p_batch_size,
              sort  |-> << [timestamp |-> "asc"] >>,
              pit   |-> [id |-> p_pit_id, keep_alive |-> "1m"],
              query |-> [bool |-> [must |-> Must(Filters(p_level, p_start_date, p_end_date))]] ]
    IN  WithSearchAfter(query_body, p_search_after)

(***************************************************************************)
(* The backend behind es.search: the snapshot's documents sorted ascending *)
(* on the query's sort field (timestamp); a page is the first `size`       *)
(* documents whose sort value is strictly after search_after.              *)
(***************************************************************************)
\* the hit of a document: its sort values and, when it has one, its _source
\* (restricted to the query's "_source" field list when the query has one)
Hit(doc, query) ==
    LET src == doc.source.dict
        kept == IF "_source" \in DOMAIN query
                THEN [k \in (DOMAIN src) \cap Range(query["_source"]) |-> src[k]]
                ELSE src
    IN  ("sort" :> << doc.timestamp >>)
        @@ (IF IsDict(doc.source) THEN ("_source" :> kept) ELSE EmptyDict)

es_search(query) ==
    LET After(doc) == IF "search_after" \in DOMAIN query
                      THEN doc.timestamp > query["search_after"][1]
                      ELSE TRUE
        rest == SelectSeq(backend, After)
        n == Min(query.size, Len(rest))
    IN  [i \in 1..n |-> Hit(rest[i], query)]

(***************************************************************************)
(* Projection of one hit (fetch_logs, the body of the for loop).           *)
(***************************************************************************)
\* log = hit["_source"]; if fields: log = {k: log.get(k, None) for k in fields}
Project(source, p_fields) ==
    IF Truthy(p_fields)
    THEN [k \in Range(p_fields.list) |-> Get(source, k)]
    ELSE source

(***************************************************************************)
(* save_logs_to_csv: writes logs_chunk_<chunk_index>.csv (mode "w").  A    *)
(* failed write is logged and swallowed; `files` keeps the chunks whose    *)
(* write completed.                                                        *)
(***************************************************************************)
FilesAfterSave(logs, chunk_index, written) ==
    IF written THEN (chunk_index :> logs) @@ files ELSE files

LogAfterSave(logs, written) ==
    IF written THEN LogEvent("info", "saved", Len(logs))
               ELSE LogEvent("error", "save", Len(logs))

(***************************************************************************)
(* Inputs of a run.                                                        *)
(***************************************************************************)
\* one _source shape: "level" present, "message" missing, "host" extra
Sources == { [level |-> "ERROR", host |-> "h"] }

\* a document of the snapshot; a hit may come without "_source"
Docs == { [timestamp |-> t, source |-> s] :
            t \in 1..MaxTs, s \in { PyDict(x) : x \in Sources } \cup { PyNone } }

IsSorted(s) == \A i \in 1..(Len(s) - 1) : s[i].timestamp <= s[i + 1].timestamp

\* the result sets: up to MaxRecords documents in ascending timestamp order
Backends == { s \in UNION { [1..n -> Docs] : n \in 0..MaxRecords } : IsSorted(s) }

FieldsChoices == { PyNone, PyList(<< >>), PyList(<< "level", "message" >>) }

\* (level, start_date, end_date) as the command line gives them
FilterChoices == { << None, None, None >>, << "ERROR", "2024-01-01", "" >> }

\* what es.open_point_in_time may answer
OpenResponses == { ("pit_id" :> "pit-1"), ("id" :> "pit-1"), ("pit_id" :> ""), EmptyDict }

Locals ==
    /\ pit_id = None
    /\ search_after = PyNone
    /\ total_logs = 0
    /\ current_chunk = << >>
    /\ chunk_counter = 1
    /\ hits = << >>
    /\ hit_i = 0
    /\ attempt = 0
    /\ pending = FALSE

History ==
    /\ built = << >>
    /\ searches = << >>
    /\ flushes = << >>
    /\ files = << >>
    /\ appended = << >>
    /\ opens = 0
    /\ close_calls = 0
    /\ close_attempts = << >>
    /\ log_events = << >>

Init ==
    /\ backend \in Backends
    /\ batch_size \in 1..MaxBatch
    /\ max_logs_per_chunk \in 1..MaxChunk
    /\ fields \in FieldsChoices
    /\ \E f \in FilterChoices :
          /\ level = f[1]
          /\ start_date = f[2]
          /\ end_date = f[3]
    /\ pc = "validate"
    /\ outcome = "running"
    /\ Locals
    /\ History

(***************************************************************************)
(* Steps of fetch_logs.                                                    *)
(***************************************************************************)
Log(e) == log_events' = Append(log_events, e)

\* faulty variant of SysExit: the error is logged and the run carries on
\* with the next stage
SysExitMissing ==
    /\ pc' = (IF pc = "validate" THEN "open" ELSE "search")
    /\ outcome' = outcome

\* sys.exit(1): SystemExit leaves the process with status 1
SysExit ==
    /\ pc' = "exited"
    /\ outcome' = "exit1"

\* faulty variant of Raise: the remainder flush sits in the finally block, so
\* it also runs when an exception unwinds
RaiseThroughRemainderFlush ==
    /\ pending' = TRUE
    /\ pc' = "remainder"

\* an exception inside the try block of fetch_logs: control goes to finally
Raise ==
    /\ pending' = TRUE
    /\ pc' = "finally"

\* validate_index_exists
ValidateIndexExists ==
    /\ pc = "validate"
    /\ \E r \in { "exists", "absent", "transport_error" } :
          IF r = "exists"
          THEN /\ pc' = "open"
               /\ UNCHANGED << outcome, log_events >>
          ELSE /\ Log(LogEvent("error", r, 0))
               /\ SysExit
    /\ UNCHANGED << params, pending, pit_id, search_after, total_logs, current_chunk,
                    chunk_counter, hits, hit_i, attempt, built, searches, flushes,
                    files, appended, opens, close_calls, close_attempts >>

\* open_point_in_time
OpenPointInTime ==
    /\ pc = "open"
    /\ \/ \E pit_response \in OpenResponses :
             LET id == Or(Get(pit_response, "pit_id"), Get(pit_response, "id"))
             IN  IF TruthyStr(id)
                 THEN /\ pit_id' = id
                      /\ opens' = opens + 1
                      /\ pc' = "mkdir"
                      /\ UNCHANGED << outcome, log_events >>
                 ELSE /\ Log(LogEvent("error", "no_pit_id", 0))
                      /\ SysExit
                      /\ UNCHANGED << pit_id, opens >>
       \/ /\ Log(LogEvent("error", "open_transport_error", 0))
          /\ SysExit
          /\ UNCHANGED << pit_id, opens >>
    /\ UNCHANGED << params, pending, search_after, total_logs, current_chunk,
                    chunk_counter, hits, hit_i, attempt, built, searches, flushes,
                    files, appended, close_calls, close_attempts >>

\* faulty variant of GetOutputDirectory: chunk_counter starts at 0
GetOutputDirectoryCountingFromZero ==
    /\ pc = "mkdir"
    /\ \/ /\ search_after' = PyNone
          /\ total_logs' = 0
          /\ current_chunk' = << >>
          /\ chunk_counter' = 0
          /\ pc' = "search"
          /\ UNCHANGED << outcome, log_events >>
       \/ /\ Log(LogEvent("error", "makedirs", 0))
          /\ SysExit
          /\ UNCHANGED << search_after, total_logs, current_chunk, chunk_counter >>
    /\ UNCHANGED << params, pending, pit_id, hits, hit_i, attempt, built, searches,
                    flushes, files, appended, opens, close_calls, close_attempts >>

\* get_output_directory, then the initialisation of the locals; it runs
\* before the try block, so its sys.exit(1) does not pass through finally
GetOutputDirectory ==
    /\ pc = "mkdir"
    /\ \/ /\ search_after' = PyNone
          /\ total_logs' = 0
          /\ current_chunk' = << >>
          /\ chunk_counter' = 1
          /\ pc' = "search"
          /\ UNCHANGED << outcome, log_events >>
       \/ /\ Log(LogEvent("error", "makedirs", 0))
          /\ SysExit
          /\ UNCHANGED << search_after, total_logs, current_chunk, chunk_counter >>
    /\ UNCHANGED << params, pending, pit_id, hits, hit_i, attempt, built, searches,
                    flushes, files, appended, opens, close_calls, close_attempts >>

\* faulty variant of PageQuery: the query is built without the handle that
\* open_point_in_time returned
PageQueryWithoutHandle ==
    LET query == build_query(None, search_after, level, start_date, end_date, batch_size)
    IN  IF Truthy(fields) THEN query @@ ("_source" :> fields.list) ELSE query

\* the query of the next page: build_query, plus "_source" when fields is truthy
PageQuery ==
    LET query == build_query(pit_id, search_after, level, start_date, end_date, batch_size)
    IN  IF Truthy(fields) THEN query @@ ("_source" :> fields.list) ELSE query

BuildArgs ==
    [ pit_id |-> pit_id, search_after |-> search_after, level |-> level,
      start_date |-> start_date, end_date |-> end_date, batch_size |-> batch_size ]

BuiltNow ==
    << [ args |-> BuildArgs,
         result |-> build_query(pit_id, search_after, level, start_date, end_date, batch_size) ] >>

\* faulty variant of PageExhausted: a page shorter than batch_size ends the loop
PageShort(page) == Len(page) < batch_size

\* if not hits: break
PageExhausted(page) == page = << >>

\* es.search returns a page; an empty page leaves the loop (break)
SearchReturns ==
    /\ pc = "search"
    /\ built' = BuiltNow
    /\ hits' = es_search(PageQuery)
    /\ searches' = Append(searches, [query |-> PageQuery, raised |-> FALSE, n |-> Len(hits'),
                                      sorts |-> [i \in 1..Len(hits') |-> hits'[i]["sort"]]])
    /\ hit_i' = 1
    /\ pc' = IF PageExhausted(hits') THEN "remainder" ELSE "for"
    /\ UNCHANGED << params, outcome, pending, pit_id, search_after, total_logs,
                    current_chunk, chunk_counter, attempt, flushes, files, appended,
                    opens, close_calls, close_attempts, log_events >>

\* es.search raises: the exception leaves the loop through finally
SearchRaises ==
    /\ pc = "search"
    /\ built' = BuiltNow
    /\ searches' = Append(searches, [query |-> PageQuery, raised |-> TRUE, n |-> 0,
                                      sorts |-> << >>])
    /\ Raise
    /\ UNCHANGED << params, outcome, pit_id, search_after, total_logs, current_chunk,
                    chunk_counter, hits, hit_i, attempt, flushes, files, appended,
                    opens, close_calls, close_attempts, log_events >>

\* faulty variant of ChunkFull: > instead of >=
ChunkOverFull(chunk) == Len(chunk) > max_logs_per_chunk

\* the threshold test of the for loop
ChunkFull(chunk) == Len(chunk) >= max_logs_per_chunk

\* faulty variant of ProcessHit: save_logs_to_csv lets the write error out,
\* so a failed write of a full chunk aborts the loop
ProcessHitAbortsOnWriteError ==
    /\ pc = "for"
    /\ LET hit == hits[hit_i]
       IN  IF "_source" \notin DOMAIN hit
           THEN /\ Raise
                /\ UNCHANGED << current_chunk, total_logs, chunk_counter, hit_i, flushes,
                                files, appended, log_events >>
           ELSE LET log == Project(hit["_source"], fields)
                    chunk == Append(current_chunk, log)
                IN  /\ appended' = << [source |-> hit["_source"], log |-> log] >>
                    /\ total_logs' = total_logs + 1
                    /\ IF ChunkFull(chunk)
                       THEN \E written \in BOOLEAN :
                               /\ files' = FilesAfterSave(chunk, chunk_counter, written)
                               /\ flushes' = Append(flushes, [index |-> chunk_counter,
                                                              logs |-> chunk,
                                                              written |-> written])
                               /\ Log(LogAfterSave(chunk, written))
                               /\ IF written
                                  THEN /\ chunk_counter' = chunk_counter + 1
                                       /\ current_chunk' = << >>
                                       /\ hit_i' = hit_i + 1
                                       /\ pc' = IF hit_i = Len(hits) THEN "cursor" ELSE "for"
                                       /\ UNCHANGED pending
                                  ELSE /\ Raise
                                       /\ current_chunk' = chunk
                                       /\ UNCHANGED << chunk_counter, hit_i >>
                       ELSE /\ current_chunk' = chunk
                            /\ hit_i' = hit_i + 1
                            /\ pc' = IF hit_i = Len(hits) THEN "cursor" ELSE "for"
                            /\ UNCHANGED << files, flushes, log_events, chunk_counter,
                                            pending >>
    /\ UNCHANGED << params, outcome, pit_id, search_after, hits, attempt, built,
                    searches, opens, close_calls, close_attempts >>

\* one iteration of the for loop: project, append, count, flush when full
ProcessHit ==
    /\ pc = "for"
    /\ LET hit == hits[hit_i]
       IN  IF "_source" \notin DOMAIN hit
           THEN \* hit["_source"] raises KeyError
                /\ Raise
                /\ UNCHANGED << current_chunk, total_logs, chunk_counter, hit_i, flushes,
                                files, appended, log_events >>
           ELSE LET log == Project(hit["_source"], fields)
                    chunk == Append(current_chunk, log)
                IN  /\ appended' = << [source |-> hit["_source"], log |-> log] >>
                    /\ total_logs' = total_logs + 1
                    /\ IF ChunkFull(chunk)
                       THEN \E written \in BOOLEAN :
                               /\ files' = FilesAfterSave(chunk, chunk_counter, written)
                               /\ flushes' = Append(flushes, [index |-> chunk_counter,
                                                              logs |-> chunk,
                                                              written |-> written])
                               /\ Log(LogAfterSave(chunk, written))
                               /\ chunk_counter' = chunk_counter + 1
                               /\ current_chunk' = << >>
                       ELSE /\ current_chunk' = chunk
                            /\ UNCHANGED << files, flushes, log_events, chunk_counter >>
                    /\ hit_i' = hit_i + 1
                    /\ pc' = IF hit_i = Len(hits) THEN "cursor" ELSE "for"
                    /\ UNCHANGED pending
    /\ UNCHANGED << params, outcome, pit_id, search_after, hits, attempt, built,
                    searches, opens, close_calls, close_attempts >>

\* faulty variant of LastSort: hits[0]["sort"]
FirstSort(page) == page[1]["sort"]

\* hits[-1]["sort"]
LastSort(page) == page[Len(page)]["sort"]

\* search_after = hits[-1]["sort"], and back to the top of the loop
AdvanceCursor ==
    /\ pc = "cursor"
    /\ search_after' = PyList(LastSort(hits))
    /\ pc' = "search"
    /\ UNCHANGED << params, outcome, pending, pit_id, total_logs, current_chunk,
                    chunk_counter, hits, hit_i, attempt, built, searches, flushes,
                    files, appended, opens, close_calls, close_attempts, log_events >>

\* faulty variant of FlushRemainder: the buffer left after the loop is dropped
RemainderDropped ==
    /\ pc = "remainder"
    /\ Log(LogEvent("info", "total", total_logs))
    /\ pc' = "finally"
    /\ UNCHANGED << params, outcome, pending, pit_id, search_after, total_logs,
                    current_chunk, chunk_counter, hits, hit_i, attempt, built, searches,
                    flushes, files, appended, opens, close_calls, close_attempts >>

\* after the loop: flush what is left, report the total
FlushRemainder ==
    /\ pc = "remainder"
    /\ IF current_chunk # << >>
       THEN \E written \in BOOLEAN :
               /\ files' = FilesAfterSave(current_chunk, chunk_counter, written)
               /\ flushes' = Append(flushes, [index |-> chunk_counter,
                                              logs |-> current_chunk,
                                              written |-> written])
               /\ log_events' = log_events \o << LogAfterSave(current_chunk, written),
                                                 LogEvent("info", "total", total_logs) >>
       ELSE /\ Log(LogEvent("info", "total", total_logs))
            /\ UNCHANGED << files, flushes >>
    /\ pc' = "finally"
    /\ UNCHANGED << params, outcome, pending, pit_id, search_after, total_logs,
                    current_chunk, chunk_counter, hits, hit_i, attempt, built, searches,
                    appended, opens, close_calls, close_attempts >>

\* faulty variant of Finally: the close sits after the loop instead of in a
\* finally block, so an exception leaves fetch_logs without closing the PIT
FinallySkippedOnError ==
    /\ pc = "finally"
    /\ IF pending
       THEN /\ pc' = "done"
            /\ outcome' = "error"
            /\ UNCHANGED << close_calls, attempt >>
       ELSE /\ close_calls' = close_calls + 1
            /\ attempt' = 1
            /\ pc' = "close"
            /\ UNCHANGED outcome
    /\ UNCHANGED << params, pending, pit_id, search_after, total_logs,
                    current_chunk, chunk_counter, hits, hit_i, built, searches, flushes,
                    files, appended, opens, close_attempts, log_events >>

\* finally: close_point_in_time_with_retries(es, pit_id)
Finally ==
    /\ pc = "finally"
    /\ close_calls' = close_calls + 1
    /\ attempt' = 1
    /\ pc' = "close"
    /\ UNCHANGED << params, outcome, pending, pit_id, search_after, total_logs,
                    current_chunk, chunk_counter, hits, hit_i, built, searches, flushes,
                    files, appended, opens, close_attempts, log_events >>

\* close_point_in_time_with_retries returns; fetch_logs ends, re-raising the
\* exception that brought it into finally, if any
CloseReturns ==
    /\ pc' = "done"
    /\ outcome' = IF pending THEN "error" ELSE "ok"
    /\ UNCHANGED attempt

\* faulty variant of CloseSucceeds: the return after a successful close is
\* missing, so the loop goes on to the next attempt
CloseSucceedsAndRetries ==
    /\ pc = "close"
    /\ close_attempts' = Append(close_attempts, "ok")
    /\ IF attempt < DefaultRetries
       THEN /\ Log(LogEvent("info", "pit_closed", attempt))
            /\ attempt' = attempt + 1
            /\ UNCHANGED << pc, outcome >>
       ELSE /\ log_events' = log_events \o << LogEvent("info", "pit_closed", attempt),
                                              LogEvent("error", "pit_not_closed", 0) >>
            /\ CloseReturns
    /\ UNCHANGED << params, pending, pit_id, search_after, total_logs, current_chunk,
                    chunk_counter, hits, hit_i, built, searches, flushes, files,
                    appended, opens, close_calls >>

\* one attempt of the retry loop succeeds
CloseSucceeds ==
    /\ pc = "close"
    /\ close_attempts' = Append(close_attempts, "ok")
    /\ Log(LogEvent("info", "pit_closed", attempt))
    /\ CloseReturns
    /\ UNCHANGED << params, pending, pit_id, search_after, total_logs, current_chunk,
                    chunk_counter, hits, hit_i, built, searches, flushes, files,
                    appended, opens, close_calls >>

\* faulty variant of CloseFails: the last failure is re-raised to the caller
CloseFailsAndRaises ==
    /\ pc = "close"
    /\ close_attempts' = Append(close_attempts, "fail")
    /\ Log(LogEvent("warning", "close_failed", attempt))
    /\ IF attempt < DefaultRetries
       THEN /\ attempt' = attempt + 1
            /\ UNCHANGED << pc, outcome >>
       ELSE /\ pc' = "done"
            /\ outcome' = "error"
            /\ UNCHANGED attempt
    /\ UNCHANGED << params, pending, pit_id, search_after, total_logs, current_chunk,
                    chunk_counter, hits, hit_i, built, searches, flushes, files,
                    appended, opens, close_calls >>

\* one attempt of the retry loop fails: a warning, then the next attempt, or
\* the final error after the last one
CloseFails ==
    /\ pc = "close"
    /\ close_attempts' = Append(close_attempts, "fail")
    /\ IF attempt < DefaultRetries
       THEN /\ Log(LogEvent("warning", "close_failed", attempt))
            /\ attempt' = attempt + 1
            /\ UNCHANGED << pc, outcome >>
       ELSE /\ log_events' = log_events \o << LogEvent("warning", "close_failed", attempt),
                                              LogEvent("error", "pit_not_closed", 0) >>
            /\ CloseReturns
    /\ UNCHANGED << params, pending, pit_id, search_after, total_logs, current_chunk,
                    chunk_counter, hits, hit_i, built, searches, flushes, files,
                    appended, opens, close_calls >>

Next ==
    \/ ValidateIndexExists
    \/ OpenPointInTime
    \/ GetOutputDirectory
    \/ SearchReturns
    \/ SearchRaises
    \/ ProcessHit
    \/ AdvanceCursor
    \/ FlushRemainder
    \/ Finally
    \/ CloseSucceeds
    \/ CloseFails

Spec == Init /\ [][Next]_vars

\* fetch_logs runs in one thread and every backend call returns (or raises):
\* a run that can take a step takes it
SpecLive == Init /\ [][Next]_vars /\ WF_vars(Next)

(***************************************************************************)
(* The end-to-end scenario: 25 records with the timestamps 1..25,          *)
(* batch_size = 10, max_logs_per_chunk = 12.                               *)
(***************************************************************************)
InitE2E ==
    /\ backend = [i \in 1..25 |->
                    [timestamp |-> i, source |-> PyDict([level |-> "ERROR", host |-> "h"])]]
    /\ batch_size = 10
    /\ max_logs_per_chunk = 12
    /\ fields \in FieldsChoices
    /\ \E f \in FilterChoices :
          /\ level = f[1]
          /\ start_date = f[2]
          /\ end_date = f[3]
    /\ pc = "validate"
    /\ outcome = "running"
    /\ Locals
    /\ History

SpecE2E == InitE2E /\ [][Next]_vars

(***************************************************************************)
(* build_query on its own: every combination of its arguments.             *)
(***************************************************************************)
LevelChoices == { None, "", "ERROR" }
DateChoices == { None, "", "2024-01-01" }
CursorChoices == { PyNone, PyList(<< >>) } \cup { PyList(<< t >>) : t \in 1..MaxTs }

InitQuery ==
    /\ backend = << >>
    /\ batch_size = 1
    /\ max_logs_per_chunk = 1
    /\ fields = PyNone
    /\ level = None
    /\ start_date = None
    /\ end_date = None
    /\ pc = "build_query"
    /\ outcome = "running"
    /\ Locals
    /\ History

BuildQueryCall ==
    /\ pc = "build_query"
    /\ \E c \in CursorChoices, l \in LevelChoices, s \in DateChoices, e \in DateChoices,
          b \in 1..MaxBatch :
          built' = << [ args |-> [ pit_id |-> "pit-1", search_after |-> c, level |-> l,
                                   start_date |-> s, end_date |-> e, batch_size |-> b ],
                        result |-> build_query("pit-1", c, l, s, e, b) ] >>
    /\ UNCHANGED << params, pc, outcome, pending, pit_id, search_after, total_logs,
                    current_chunk, chunk_counter, hits, hit_i, attempt, searches,
                    flushes, files, appended, opens, close_calls, close_attempts,
                    log_events >>

NextQuery == BuildQueryCall

SpecQuery == InitQuery /\ [][NextQuery]_vars

(***************************************************************************)
(* Derived views of a run.                                                 *)
(***************************************************************************)
Last(s) == s[Len(s)]

\* the number of hits each es.search call returned, in order
PageSizes == [i \in 1..Len(searches) |-> searches[i].n]

\* the number of records each flush was given, in order
ChunkSizes == [i \in 1..Len(flushes) |-> Len(flushes[i].logs)]

\* a page query has raised
SearchFailed == \E i \in 1..Len(searches) : searches[i].raised

\* every write so far succeeded
AllWritten == \A i \in 1..Len(flushes) : flushes[i].written

\* the rows of the chunk files 1..n, in chunk-index order
RECURSIVE ChunksUpTo(_)
ChunksUpTo(n) ==
    IF n = 0 THEN << >>
    ELSE ChunksUpTo(n - 1) \o (IF n \in DOMAIN files THEN files[n] ELSE << >>)

Output == ChunksUpTo(Len(flushes))

\* every document of the snapshot carries a _source
AllHaveSource == \A i \in 1..Len(backend) : IsDict(backend[i].source)

\* the snapshot's records as the run is asked to deliver them
Expected == [i \in 1..Len(backend) |-> Project(backend[i].source.dict, fields)]

CeilDiv(n, k) == (n + k - 1) \div k

(***************************************************************************)
(* C1.  Once open_point_in_time has returned a handle,                     *)
(* close_point_in_time_with_retries is invoked exactly once on every exit  *)
(* path out of fetch_logs, the failure of the output-directory creation    *)
(* included.                                                               *)
(***************************************************************************)
C1_ClosedOnEveryExit ==
    (opens = 1 /\ outcome # "running") => close_calls = 1

(***************************************************************************)
(* C2.  When es.search raises on some page, no further query is issued,    *)
(* the close is invoked exactly once before the error reaches the caller,  *)
(* and the chunks written before the error keep their index and records.   *)
(***************************************************************************)
C2_AfterError ==
    SearchFailed =>
        /\ Last(searches).raised
        /\ Cardinality({ i \in 1..Len(searches) : searches[i].raised }) = 1
        /\ outcome \in { "running", "error" }
        /\ outcome = "error" => (close_calls = 1 /\ close_attempts # << >>)
        /\ close_calls <= 1

C2_NothingRewritten ==
    /\ SearchFailed => (files' = files /\ flushes' = flushes /\ searches' = searches)
    /\ \A i \in DOMAIN files : i \in DOMAIN files' /\ files'[i] = files[i]

C2_QueryErrorOnPage == [] C2_AfterError /\ [][C2_NothingRewritten]_vars

\* the second page raised after a chunk was written, and the error has
\* reached the caller
C2_Witness ==
    /\ Len(searches) = 2
    /\ searches[2].raised
    /\ DOMAIN files # {}
    /\ outcome = "error"
    /\ close_calls = 1

(***************************************************************************)
(* C3.  Against a backend that serves the records strictly after the       *)
(* cursor, the chunks of a normally completed run whose writes succeeded,  *)
(* concatenated in chunk-index order, are the snapshot's records in their  *)
(* order, none missing and none duplicated, for every result set sorted    *)
(* ascending by timestamp and every batch_size.                            *)
(***************************************************************************)
C3_OutputIsInput ==
    (outcome = "ok" /\ AllWritten /\ AllHaveSource) => Output = Expected

\* the timestamps of the snapshot are pairwise distinct
DistinctTimestamps ==
    \A i \in 1..(Len(backend) - 1) : backend[i].timestamp < backend[i + 1].timestamp

\* what the code does deliver: the round trip when no two records share a
\* timestamp
OutputIsInputWithoutTies ==
    (outcome = "ok" /\ AllWritten /\ AllHaveSource /\ DistinctTimestamps) => Output = Expected

(***************************************************************************)
(* C4.  Chunk boundary law: a run that completes normally with n records   *)
(* fetched and max_logs_per_chunk = k flushes ceil(n / k) chunks, all of   *)
(* k records but the last, which has n mod k (k when k divides n); no      *)
(* chunk ever exceeds k; nothing is flushed when n = 0.                    *)
(***************************************************************************)
C4_ChunkBoundaryLaw ==
    LET k == max_logs_per_chunk
        n == SeqSum(PageSizes)
        c == Len(flushes)
    IN  /\ \A i \in 1..c : ChunkSizes[i] >= 1 /\ ChunkSizes[i] <= k
        /\ outcome = "ok" =>
              /\ n = total_logs
              /\ c = CeilDiv(n, k)
              /\ \A i \in 1..(c - 1) : ChunkSizes[i] = k
              /\ c > 0 => ChunkSizes[c] = (IF n % k = 0 THEN k ELSE n % k)
              /\ n = 0 => flushes = << >>

\* three records with k = 2: a full chunk and a remainder of one
C4_Witness ==
    /\ outcome = "ok"
    /\ max_logs_per_chunk = 2
    /\ ChunkSizes = << 2, 1 >>

(***************************************************************************)
(* C5.  When every close attempt fails, exactly DefaultRetries attempts    *)
(* are made and close_point_in_time_with_retries returns without raising:  *)
(* a run whose pagination succeeded still completes normally.              *)
(***************************************************************************)
C5_CloseRetryBound ==
    /\ Len(close_attempts) <= DefaultRetries
    /\ (pc = "done" /\ "ok" \notin Range(close_attempts)) =>
          /\ Len(close_attempts) = DefaultRetries
          /\ outcome = (IF pending THEN "error" ELSE "ok")
          /\ Last(log_events) = LogEvent("error", "pit_not_closed", 0)

\* three failed attempts, and the run completed normally
C5_Witness ==
    /\ outcome = "ok"
    /\ close_attempts = << "fail", "fail", "fail" >>

(***************************************************************************)
(* C6.  End to end, 25 records, batch_size = 10, max_logs_per_chunk = 12:  *)
(* a normally completed run has made the page fetches 10, 10, 5 and the    *)
(* empty fetch that ends the loop, and flushed chunks of 12, 12 and 1      *)
(* records, 25 in total, which are the 25 records in order when the writes *)
(* succeeded.                                                              *)
(***************************************************************************)
C6_EndToEnd ==
    outcome = "ok" =>
        /\ PageSizes = << 10, 10, 5, 0 >>
        /\ ChunkSizes = << 12, 12, 1 >>
        /\ [i \in 1..Len(flushes) |-> flushes[i].index] = << 1, 2, 3 >>
        /\ total_logs = 25
        /\ AllWritten => Output = Expected

\* C6 as stated: exactly three page fetches, 10, 10 and 5
C6_ThreePageFetches ==
    outcome = "ok" =>
        /\ PageSizes = << 10, 10, 5 >>
        /\ ChunkSizes = << 12, 12, 1 >>
        /\ total_logs = 25
        /\ AllWritten => Output = Expected

\* the scenario ran to its end with every chunk written
C6_Witness ==
    /\ outcome = "ok"
    /\ AllWritten
    /\ Len(backend) = 25
    /\ DOMAIN files = { 1, 2, 3 }

(***************************************************************************)
(* C7.  Projection: with fields = None the buffered record is the source   *)
(* record; with any other fields, the empty list included, it has exactly  *)
(* the keys of fields, None for a key the source lacks and the source's    *)
(* value otherwise.                                                        *)
(***************************************************************************)
C7_Projection ==
    \A i \in 1..Len(appended) :
        LET source == appended[i].source
            log == appended[i].log
        IN  IF IsNone(fields)
            THEN log = source
            ELSE /\ DOMAIN log = Range(fields.list)
                 /\ \A k \in DOMAIN log :
                       log[k] = (IF k \in DOMAIN source THEN source[k] ELSE None)

\* what the code does: the same, for a fields list that is not empty
ProjectionOfNonEmptyFields ==
    \A i \in 1..Len(appended) :
        LET source == appended[i].source
            log == appended[i].log
        IN  IF ~ Truthy(fields)
            THEN log = source
            ELSE /\ DOMAIN log = Range(fields.list)
                 /\ \A k \in DOMAIN log :
                       log[k] = (IF k \in DOMAIN source THEN source[k] ELSE None)

(***************************************************************************)
(* C8.  The loop stops at the first empty page: an empty page leads        *)
(* straight to the remainder flush and the close with the cursor           *)
(* unchanged, and no query follows it; a non-empty page is processed and   *)
(* followed by the next query.                                             *)
(***************************************************************************)
\* the last query returned an empty page
Exhausted == searches # << >> /\ ~ Last(searches).raised /\ Last(searches).n = 0

C8_Step ==
    /\ Exhausted => (searches' = searches /\ search_after' = search_after
                     /\ pc' \in { "remainder", "finally", "close", "done" })
    /\ (searches' # searches /\ ~ Last(searches').raised) =>
          /\ search_after' = search_after
          /\ pc' = (IF Last(searches').n = 0 THEN "remainder" ELSE "for")
    /\ pc' = "remainder" => (hits' = << >> /\ (pc = "search" \/ pc = "remainder"))
    /\ pc = "remainder" => pc' \in { "remainder", "finally" }
    /\ (pc = "finally" /\ pc' # pc) => (pc' = "close" /\ close_calls' = close_calls + 1)
    /\ pc = "cursor" => pc' \in { "cursor", "search" }
    /\ (pc = "for" /\ ~ pending') => pc' \in { "for", "cursor" }

C8_StopsAtFirstEmptyPage == [][C8_Step]_vars

\* an empty page after a non-empty one that was shorter than batch_size
C8_Witness ==
    /\ pc = "remainder"
    /\ Len(searches) = 2
    /\ searches[1].n = 1
    /\ searches[1].n < batch_size
    /\ searches[2].n = 0

(***************************************************************************)
(* C9.  A failed precondition stops the run before any later stage: when   *)
(* the index check fails nothing is opened, queried or closed; when the    *)
(* open fails or yields no id nothing is queried or written; the run ends  *)
(* with exit status 1.                                                     *)
(***************************************************************************)
Logged(msgs) == \E i \in 1..Len(log_events) : log_events[i].msg \in msgs

C9_PreconditionFailures ==
    /\ Logged({ "absent", "transport_error" }) =>
          /\ outcome = "exit1"
          /\ opens = 0
          /\ searches = << >>
          /\ close_calls = 0
          /\ close_attempts = << >>
    /\ Logged({ "no_pit_id", "open_transport_error" }) =>
          /\ outcome = "exit1"
          /\ opens = 0
          /\ searches = << >>
          /\ flushes = << >>
          /\ DOMAIN files = {}
    /\ searches # << >> => opens = 1

\* the open answered without an id
C9_Witness ==
    /\ Logged({ "no_pit_id" })
    /\ outcome = "exit1"

(***************************************************************************)
(* C10.  build_query: the range clause has gte iff a non-empty start bound *)
(* is given, lte iff a non-empty end bound is given, and is absent with    *)
(* neither; the match clause is present iff a non-empty level is given;    *)
(* with no clause the query is match_all and never an empty list; the sort *)
(* is ascending on timestamp; search_after is present iff the cursor is    *)
(* neither None nor empty, and is that cursor.                             *)
(***************************************************************************)
\* the clauses of the query with this key
Clauses(q, key) ==
    LET must == q.query.bool.must
    IN  IF IsList(must)
        THEN { i \in 1..Len(must.list) : key \in DOMAIN must.list[i] }
        ELSE {}

QueryShape(a, q, hasLevel, hasStart, hasEnd, hasCursor) ==
    LET must == q.query.bool.must
        matches == Clauses(q, "match")
        ranges == Clauses(q, "range")
    IN  /\ (matches # {}) <=> hasLevel
        /\ \A i \in matches : must.list[i] = [match |-> [level |-> a.level]]
        /\ Cardinality(matches) <= 1
        /\ (ranges # {}) <=> (hasStart \/ hasEnd)
        /\ Cardinality(ranges) <= 1
        /\ \A i \in ranges :
              LET date_range == must.list[i].range.timestamp
              IN  /\ ("gte" \in DOMAIN date_range) <=> hasStart
                  /\ ("lte" \in DOMAIN date_range) <=> hasEnd
                  /\ hasStart => date_range["gte"] = a.start_date
                  /\ hasEnd => date_range["lte"] = a.end_date
                  /\ DOMAIN date_range \subseteq { "gte", "lte" }
        /\ IsList(must) => Len(must.list) = Cardinality(matches) + Cardinality(ranges)
        /\ IsList(must) => must.list # << >>
        /\ (~ hasLevel /\ ~ hasStart /\ ~ hasEnd) <=> IsDict(must)
        /\ IsDict(must) => must = PyDict([match_all |-> EmptyDict])
        /\ q.sort = << [timestamp |-> "asc"] >>
        /\ q.size = a.batch_size
        /\ q.pit.id = a.pit_id
        /\ ("search_after" \in DOMAIN q) <=> hasCursor
        /\ hasCursor => q["search_after"] = a.search_after.list

C10_BuildQuery ==
    \A i \in 1..Len(built) :
        LET a == built[i].args
        IN  QueryShape(a, built[i].result, TruthyStr(a.level), TruthyStr(a.start_date),
                       TruthyStr(a.end_date), Truthy(a.search_after))

\* C10 as stated: "given" is "not None", for the bounds, the level and the cursor
C10_GivenMeansNotNone ==
    \A i \in 1..Len(built) :
        LET a == built[i].args
        IN  QueryShape(a, built[i].result, a.level # None, a.start_date # None,
                       a.end_date # None, ~ IsNone(a.search_after))

\* a query with a level, a start bound only, and a cursor
C10_Witness ==
    /\ built # << >>
    /\ built[1].args.level = "ERROR"
    /\ built[1].args.start_date = "2024-01-01"
    /\ built[1].args.end_date = None
    /\ built[1].args.search_after = PyList(<< 1 >>)
    /\ "search_after" \in DOMAIN built[1].result

(***************************************************************************)
(* C11.  Cursor protocol: the first query of a run carries no cursor;      *)
(* every later query carries the sort values of the last hit of the page   *)
(* before it; the cursors of a run never decrease in the ascending         *)
(* timestamp order, and search_after, once set, is never None again.       *)
(***************************************************************************)
\* the cursor the i-th query carries
CursorOf(i) == searches[i].query["search_after"]

C11_Cursors ==
    \A i \in 1..Len(searches) :
        /\ i = 1 => "search_after" \notin DOMAIN searches[i].query
        /\ i > 1 =>
              /\ "search_after" \in DOMAIN searches[i].query
              /\ searches[i - 1].sorts # << >>
              /\ CursorOf(i) = Last(searches[i - 1].sorts)
        /\ i > 2 => CursorOf(i)[1] >= CursorOf(i - 1)[1]

C11_NoRewind ==
    ~ IsNone(search_after) =>
        /\ ~ IsNone(search_after')
        /\ search_after'.list[1] >= search_after.list[1]

C11_CursorProtocol == [] C11_Cursors /\ [][C11_NoRewind]_vars

\* three queries: none, then the cursor 1, then the cursor 2
C11_Witness ==
    /\ Len(searches) = 3
    /\ "search_after" \notin DOMAIN searches[1].query
    /\ CursorOf(2) = << 1 >>
    /\ CursorOf(3) = << 2 >>

(***************************************************************************)
(* C12.  close_point_in_time_with_retries stops at the first successful    *)
(* close: when attempt i is the first to succeed there are i attempts and  *)
(* none after it, and i - 1 warnings, one per failed attempt; the final    *)
(* error is logged only when all DefaultRetries attempts failed; a handle  *)
(* is never successfully closed twice.                                     *)
(***************************************************************************)
\* the number of log events with this message
LogCount(msg) == Cardinality({ i \in 1..Len(log_events) : log_events[i].msg = msg })

\* the number of close attempts with this result
AttemptCount(result) ==
    Cardinality({ i \in 1..Len(close_attempts) : close_attempts[i] = result })

C12_StopsAtFirstSuccess ==
    /\ Len(close_attempts) <= DefaultRetries
    /\ \A i \in 1..(Len(close_attempts) - 1) : close_attempts[i] = "fail"
    /\ AttemptCount("ok") <= 1
    /\ AttemptCount("ok") = LogCount("pit_closed")
    /\ AttemptCount("ok") = 1 => pc = "done"
    /\ LogCount("close_failed") = AttemptCount("fail")
    /\ LogCount("pit_not_closed") = (IF AttemptCount("fail") = DefaultRetries THEN 1 ELSE 0)
    /\ (pc = "done" /\ AttemptCount("ok") = 0) => AttemptCount("fail") = DefaultRetries

\* the second attempt is the first to succeed: two attempts, one warning
C12_Witness ==
    /\ close_attempts = << "fail", "ok" >>
    /\ LogCount("close_failed") = 1
    /\ LogCount("pit_not_closed") = 0
    /\ pc = "done"

(***************************************************************************)
(* C13.  The write-failure policy is skip and continue at both flush       *)
(* sites: a failed write is logged and never aborts the run.  At the       *)
(* threshold flush the buffer is cleared and the chunk index advances      *)
(* whatever the write did, and the loop goes on; at the remainder flush    *)
(* the buffer and the index are left as they are and the close follows.    *)
(* The run completes normally.                                             *)
(***************************************************************************)
\* this step called save_logs_to_csv
Flushing == Len(flushes') = Len(flushes) + 1

C13_FlushStep ==
    Flushing =>
        LET f == Last(flushes')
        IN  /\ flushes' = Append(flushes, f)
            /\ f.index = chunk_counter
            /\ ~ pending /\ ~ pending'
            /\ outcome' = "running"
            /\ files' = (IF f.written THEN (f.index :> f.logs) @@ files ELSE files)
            /\ LogCount("save")' = LogCount("save") + (IF f.written THEN 0 ELSE 1)
            /\ IF pc = "for"
               THEN /\ current_chunk' = << >>
                    /\ chunk_counter' = chunk_counter + 1
                    /\ total_logs' = total_logs + 1
                    /\ pc' \in { "for", "cursor" }
               ELSE /\ pc = "remainder"
                    /\ pc' = "finally"
                    /\ UNCHANGED << current_chunk, chunk_counter, total_logs >>

C13_RunCompletes ==
    /\ (pc = "done" /\ ~ pending) => outcome = "ok"
    /\ pending => (SearchFailed \/ ~ AllHaveSource)

C13_SkipAndContinue == [] C13_RunCompletes /\ [][C13_FlushStep]_vars

\* C13 as stated: after a failed write at either site the chunk index has
\* advanced and the buffer is empty
C13_ClearedAtBothSites ==
    /\ \A i \in 1..Len(flushes) : ~ flushes[i].written => chunk_counter > flushes[i].index
    /\ (flushes # << >> /\ ~ Last(flushes).written /\ pc \in { "finally", "close", "done" }
        /\ ~ pending) => current_chunk = << >>
    /\ (pc = "done" /\ ~ pending) => outcome = "ok"

\* the first chunk's write failed, the second chunk was written under its
\* own index, and the run completed normally
C13_Witness ==
    /\ outcome = "ok"
    /\ Len(flushes) = 2
    /\ ~ flushes[1].written
    /\ flushes[2].written
    /\ DOMAIN files = { 2 }
    /\ LogCount("save") = 1

(***************************************************************************)
(* C14.  The total that fetch_logs reports at normal completion is the     *)
(* number of records persisted in the successfully written chunks, also    *)
(* when a chunk write failed.                                              *)
(***************************************************************************)
\* the totals reported by "Total logs extracted"
ReportedTotals == { log_events[i].n : i \in { j \in 1..Len(log_events) : log_events[j].msg = "total" } }

\* the number of records in the chunk files
Persisted == Len(Output)

C14_TotalIsPersisted ==
    \A n \in ReportedTotals : n = Persisted

\* what the code does report: the number of records appended to the buffer,
\* which is the number persisted when every write succeeded
TotalIsAppended ==
    \A n \in ReportedTotals :
        /\ n = total_logs
        /\ n = SeqSum(PageSizes)
        /\ AllWritten => n = Persisted

(***************************************************************************)
(* C15.  Snapshot lifecycle of a run, Unopened -> Open -> Closed: the PIT  *)
(* is opened at most once; every query is issued after the open and        *)
(* before the close is first attempted, and carries the one handle; once   *)
(* the close has been attempted no query and no open follows.              *)
(***************************************************************************)
SnapshotState ==
    IF opens = 0 THEN "Unopened"
    ELSE IF close_calls = 0 THEN "Open"
    ELSE "Closed"

C15_Handles ==
    /\ opens <= 1
    /\ close_calls <= 1
    /\ close_attempts # << >> => close_calls = 1
    /\ close_calls = 1 => opens = 1
    /\ searches # << >> => (opens = 1 /\ TruthyStr(pit_id))
    /\ \A i \in 1..Len(searches) : searches[i].query.pit.id = pit_id

C15_Step ==
    /\ searches' # searches => (SnapshotState = "Open" /\ SnapshotState' = "Open")
    /\ SnapshotState = "Closed" =>
          (SnapshotState' = "Closed" /\ searches' = searches /\ opens' = opens)
    /\ SnapshotState = "Open" => (SnapshotState' # "Unopened" /\ pit_id' = pit_id)
    /\ opens' # opens => (SnapshotState = "Unopened" /\ searches = << >>)

C15_SnapshotLifecycle == [] C15_Handles /\ [][C15_Step]_vars

\* two queries were issued while the PIT was open, and it has been closed
C15_Witness ==
    /\ pc = "done"
    /\ SnapshotState = "Closed"
    /\ Len(searches) = 2
    /\ Last(close_attempts) = "ok"

(***************************************************************************)
(* C16.  Chunk indices start at 1 and the i-th flush of a run, threshold   *)
(* or remainder, uses the index i: indices are consecutive and never       *)
(* reused, so no flush overwrites the file of an earlier one.              *)
(***************************************************************************)
C16_ChunkIndices ==
    /\ \A i \in 1..Len(flushes) : flushes[i].index = i
    /\ chunk_counter >= 1
    /\ chunk_counter >= Len(flushes)
    /\ DOMAIN files = { i \in 1..Len(flushes) : flushes[i].written }
    /\ \A i \in DOMAIN files : files[i] = flushes[i].logs

\* a threshold flush under index 1, then the remainder flush under index 2
C16_Witness ==
    /\ pc = "finally"
    /\ ~ pending
    /\ Len(flushes) = 2
    /\ chunk_counter = 2
    /\ current_chunk # << >>
    /\ DOMAIN files = { 1, 2 }

(***************************************************************************)
(* C17.  When a page query fails, the remainder flush is skipped: the      *)
(* buffered records are never handed to a flush, every chunk flushed in    *)
(* the run has exactly max_logs_per_chunk = k records, and the fetched     *)
(* records that reached no flush number at most k - 1; they are the only   *)
(* fetched records missing from the output when no chunk write failed.     *)
(***************************************************************************)
\* the fetched records that were handed to a flush
Flushed == SeqSum(ChunkSizes)

C17_LossOnQueryError ==
    SearchFailed =>
        /\ \A i \in 1..Len(flushes) : ChunkSizes[i] = max_logs_per_chunk
        /\ total_logs - Flushed = Len(current_chunk)
        /\ Len(current_chunk) <= max_logs_per_chunk - 1
        /\ LogCount("total") = 0
        /\ AllWritten => total_logs - Persisted <= max_logs_per_chunk - 1

\* C17 as stated: at most k - 1 fetched records are missing from the output
C17_AtMostKMinusOneMissing ==
    SearchFailed =>
        /\ \A i \in DOMAIN files : Len(files[i]) = max_logs_per_chunk
        /\ total_logs - Persisted <= max_logs_per_chunk - 1

\* the fourth query failed with one record in the buffer and one chunk written
C17_Witness ==
    /\ outcome = "error"
    /\ SearchFailed
    /\ max_logs_per_chunk = 2
    /\ total_logs = 3
    /\ Len(current_chunk) = 1
    /\ DOMAIN files = { 1 }

(***************************************************************************)
(* C18.  Buffer bound: the buffer never holds more than                    *)
(* max_logs_per_chunk = k records, and at most k - 1 whenever a page query *)
(* is issued, whatever batch_size is.                                      *)
(***************************************************************************)
C18_BufferBound ==
    /\ Len(current_chunk) <= max_logs_per_chunk
    /\ pc = "search" => Len(current_chunk) <= max_logs_per_chunk - 1

\* batch_size > k: one page has triggered two flushes, and the next query is
\* about to be issued
C18_Witness ==
    /\ pc = "search"
    /\ batch_size > max_logs_per_chunk
    /\ Len(searches) = 1
    /\ Len(flushes) = 2
    /\ current_chunk = << >>

(***************************************************************************)
(* C19.  Termination: for a result set of n records and batch_size = b, a  *)
(* run that enters the loop reaches the close and returns, and every run   *)
(* ends; at most ceil(n / b) + 1 queries are issued, each returning at     *)
(* most b records.                                                         *)
(***************************************************************************)
C19_QueryBound ==
    /\ Len(searches) <= CeilDiv(Len(backend), batch_size) + 1
    /\ \A i \in 1..Len(searches) : searches[i].n <= batch_size

C19_Termination ==
    /\ [] C19_QueryBound
    /\ <>(outcome # "running")
    /\ [](pc = "search" => <>(pc = "done" /\ close_calls = 1 /\ outcome \in { "ok", "error" }))

\* the bound is attained: two records, one per page, and the empty page
C19_Witness ==
    /\ outcome = "ok"
    /\ Len(backend) = 2
    /\ batch_size = 1
    /\ Len(searches) = 3
    /\ PageSizes = << 1, 1, 0 >>

====
